---- MODULE Spec2Model ----
(***************************************************************************)
(* Model of the project scaffolding tools of Personal_Portfolio:          *)
(*   scripts/new_project.py   (the "v5" scaffolder, with the sync step)    *)
(*   tools/new_project.py     (the template based scaffolder)              *)
(*   tools/validate_meta.py   (the standalone metadata validator)          *)
(* Text is modelled as a sequence of one-character strings.                *)
(***************************************************************************)
EXTENDS Integers, Sequences, FiniteSets, TLC

VARIABLES
    slugArgs,   \* the command line of the identifier computation (title, organization, year, client)
    slugPc,     \* "start" | "scripts" | "tools": which tool built slugFolder
    slugFolder, \* the folder name (project identifier) that was built
    rText,      \* render_template: the text being rendered (src.read_text() at first)
    rTemplate,  \* render_template: the template text as read
    rCtx,       \* render_template: context.items(), a sequence of <<key, value>>
    rIdx,       \* render_template: number of context items already substituted
    rPc,        \* "loop" | "written"
    vData,      \* validate_meta: json.loads(file), a function from keys to Python type names
    vPath,      \* validate_meta: args.file
    vFile,      \* validate_meta: the JSON document of that file on disk
    vIdx,       \* validate_meta: number of SCHEMA items already inspected
    vErrors,    \* validate_meta: the errors list
    vPc,        \* "loop" | "report" | "exit"
    vExit,      \* validate_meta: the process exit status (-1 while running)
    dirs,       \* file system: the set of directories
    files,      \* file system: function from the file paths that exist to their content
    pc,         \* per invocation: the statement it is at
    args,       \* per invocation: its command line
    written,    \* per invocation: the sequence of file paths it wrote, in order
    made,       \* per invocation: whether it created a directory
    out,        \* per invocation: the messages it printed, in order
    exit,       \* per invocation: exit status (-1 while running)
    seen        \* per invocation: what it found at its project root when it started:
                \* "nothing", a "root" directory, or a "project" a create had reported

slugVars == <<slugArgs, slugPc, slugFolder>>
renderVars == <<rText, rTemplate, rCtx, rIdx, rPc>>
valVars == <<vPath, vData, vFile, vIdx, vErrors, vPc, vExit>>
fsVars == <<dirs, files>>
procVars == <<pc, args, written, made, out, exit, seen>>
vars == <<slugVars, renderVars, valVars, fsVars, procVars>>
notSlug == <<renderVars, valVars, fsVars, procVars>>
notRender == <<slugVars, valVars, fsVars, procVars>>
notVal == <<slugVars, renderVars, fsVars, procVars>>
notProc == <<slugVars, renderVars, valVars>>

\* the invocations of a scaffolder
Procs == {"p1", "p2"}

\* the path of a metadata file outside the modelled projects
SomePath == [tool |-> "none", id |-> <<>>, rel |-> <<"Meta.Project.yaml">>]

(***************************************************************************)
(* Text helpers                                                            *)
(***************************************************************************)
UpperLetters == <<"A","B","C","D","E","F","G","H","I","J","K","L","M",
                  "N","O","P","Q","R","S","T","U","V","W","X","Y","Z">>
LowerLetters == <<"a","b","c","d","e","f","g","h","i","j","k","l","m",
                  "n","o","p","q","r","s","t","u","v","w","x","y","z">>
Digits == {"0","1","2","3","4","5","6","7","8","9"}

Range(s) == {s[i] : i \in DOMAIN s}

\* the function that maps x to y for each <<x, y>> of a non-empty set of pairs
RECURSIVE FunOf(_)
FunOf(pairs) ==
    LET pr == CHOOSE x \in pairs : TRUE
    IN  IF pairs = {pr} THEN pr[1] :> pr[2]
        ELSE (pr[1] :> pr[2]) @@ FunOf(pairs \ {pr})

\* str.lower() on one character
LowerChar(c) ==
    IF \E i \in DOMAIN UpperLetters : UpperLetters[i] = c
    THEN LowerLetters[CHOOSE i \in DOMAIN UpperLetters : UpperLetters[i] = c]
    ELSE c

\* str.lower()
Lower(s) == [i \in DOMAIN s |-> LowerChar(s[i])]

\* \s of the re module
Spaces == {" ", "\t", "\n"}

\* [a-z0-9]
Alnum == Range(LowerLetters) \cup Digits

\* \w of the re module (on str patterns: letters, digits and the underscore)
WordChars == Alnum \cup Range(UpperLetters) \cup {"_"}

\* the text without its leading characters of D
LStrip(s, D) ==
    LET keep == {i \in DOMAIN s : s[i] \notin D}
    IN  IF keep = {} THEN <<>>
        ELSE SubSeq(s, CHOOSE i \in keep : \A j \in keep : i <= j, Len(s))

\* the text without its trailing characters of D
RStrip(s, D) ==
    LET keep == {i \in DOMAIN s : s[i] \notin D}
    IN  IF keep = {} THEN <<>>
        ELSE SubSeq(s, 1, CHOOSE i \in keep : \A j \in keep : i >= j)

\* str.strip()
Strip(s) == RStrip(LStrip(s, Spaces), Spaces)

\* re.sub(r"[^\w\s\-]+", "", s)
RemoveNonWord(s) == SelectSeq(s, LAMBDA c : c \in WordChars \cup Spaces \cup {"-"})

\* re.sub(r"\s+", "-", s): every maximal run of whitespace becomes one dash
SubSpaceRuns(s) ==
    LET f[i \in 0..Len(s)] ==
            IF i = 0 THEN <<>>
            ELSE f[i - 1] \o (IF s[i] \notin Spaces THEN <<s[i]>>
                              ELSE IF i > 1 /\ s[i - 1] \in Spaces THEN <<>>
                              ELSE <<"-">>)
    IN  f[Len(s)]

\* re.sub(r'[^a-z0-9]+', '-', s): every maximal run of other characters becomes one dash
SubNonAlnumRuns(s) ==
    LET f[i \in 0..Len(s)] ==
            IF i = 0 THEN <<>>
            ELSE f[i - 1] \o (IF s[i] \in Alnum THEN <<s[i]>>
                              ELSE IF i > 1 /\ s[i - 1] \notin Alnum THEN <<>>
                              ELSE <<"-">>)
    IN  f[Len(s)]

\* s[:maxlen]
Prefix(s, n) == SubSeq(s, 1, IF Len(s) < n THEN Len(s) ELSE n)

\* scripts/new_project.py slug()
slug(s, maxlen) ==
    LET s1 == Lower(Strip(s))
        s2 == RemoveNonWord(s1)
        s3 == SubSpaceRuns(s2)
        s4 == RStrip(LStrip(s3, {"-", "_"}), {"-", "_"})
    IN  IF maxlen # 0 THEN Prefix(s4, maxlen) ELSE s4

\* tools/new_project.py slugify()
slugify(text) ==
    LET t1 == SubNonAlnumRuns(Lower(text))
    IN  RStrip(LStrip(t1, {"-"}), {"-"})

\* Python's `a or b` on strings
OrElse(a, b) == IF a # <<>> THEN a ELSE b

OrgMaxLen == 24
TitleMaxLen == 36

Personal == <<"p","e","r","s","o","n","a","l">>
Untitled == <<"u","n","t","i","t","l","e","d">>

\* str(datetime.now().year) and today.strftime('%Y-%m-%d') of the day of the run
ThisYear == <<"2","0","2","6">>
Today == <<"2","0","2","6","-","1","1","-","0","2">>

\* scripts/new_project.py: the folder name
ScriptsFolder(a) ==
    LET year == OrElse(Strip(a.year), ThisYear)
        org == OrElse(Strip(a.organization), Personal)
    IN  year \o <<"_">> \o slug(org, OrgMaxLen) \o <<"_">>
             \o OrElse(slug(a.title, TitleMaxLen), Untitled)

\* tools/new_project.py: the folder name below projects/<year>/
ToolsFolder(a) ==
    Today \o <<"_">> \o slugify(a.client) \o <<"_">> \o slugify(a.title)

(***************************************************************************)
(* Identifier computation on its own: inputs drawn in SlugInit             *)
(***************************************************************************)
MaxTail == 2

SlugChars == {"a", "B", " ", "-", "_", "!", "/"}

\* the subsets of S of at most n elements
RECURSIVE SubsetsUpTo(_, _)
SubsetsUpTo(S, n) ==
    IF n = 0 THEN {{}}
    ELSE LET smaller == SubsetsUpTo(S, n - 1)
         IN  smaller \cup {x \cup {e} : x \in smaller, e \in S}

\* the sequences over S of at most n elements
RECURSIVE SeqsUpTo(_, _)
SeqsUpTo(S, n) ==
    IF n = 0 THEN {<<>>}
    ELSE LET shorter == SeqsUpTo(S, n - 1)
         IN  shorter \cup {Append(s, c) : s \in {t \in shorter : Len(t) = n - 1}, c \in S}

Pad(n) == [i \in 1..n |-> "a"]

\* titles: short ones, and ones that reach the truncation length
SlugTitles ==
    {Pad(n) \o t : n \in {0, TitleMaxLen - 1}, t \in SeqsUpTo(SlugChars, MaxTail)}

SlugOrgs == {<<>>, <<"B">>, <<"!">>, Pad(OrgMaxLen - 1) \o <<" ", "a">>}

SlugYears == {<<>>, <<"2","0","2","4">>, <<"2","0","/","2","4">>, <<"-","2","4">>, <<" ">>}

SlugInit ==
    /\ slugArgs \in [title : SlugTitles, organization : SlugOrgs,
                     year : SlugYears, client : SlugOrgs]
    /\ slugPc = "start"
    /\ slugFolder = <<>>
    /\ rText = <<>> /\ rTemplate = <<>> /\ rCtx = <<>> /\ rIdx = 0 /\ rPc = "off"
    /\ vPath = SomePath /\ vFile = <<>> /\ vData = <<>> /\ vIdx = 0
    /\ vErrors = <<>> /\ vPc = "idle" /\ vExit = -1
    /\ dirs = {} /\ files = <<>>
    /\ pc = [p \in Procs |-> 1]
    /\ args = [p \in Procs |-> <<>>]
    /\ written = [p \in Procs |-> <<>>]
    /\ made = [p \in Procs |-> FALSE]
    /\ out = [p \in Procs |-> <<>>]
    /\ exit = [p \in Procs |-> 0]
    /\ seen = [p \in Procs |-> "nothing"]

BuildScriptsFolder ==
    /\ slugPc = "start"
    /\ slugFolder' = ScriptsFolder(slugArgs)
    /\ slugPc' = "scripts"
    /\ UNCHANGED <<slugArgs, notSlug>>

BuildToolsFolder ==
    /\ slugPc = "start"
    /\ slugFolder' = ToolsFolder(slugArgs)
    /\ slugPc' = "tools"
    /\ UNCHANGED <<slugArgs, notSlug>>

\* a valid single path segment
ValidSegment(id) ==
    /\ id # <<>>
    /\ \A i \in DOMAIN id : id[i] # "/"
    /\ id[1] \notin {"-", "_"}
    /\ id[Len(id)] \notin {"-", "_"}

SlugNext == BuildScriptsFolder \/ BuildToolsFolder

(***************************************************************************)
(* tools/new_project.py render_template                                    *)
(***************************************************************************)
\* whether old occurs in text at position i
OccursAt(text, old, i) ==
    /\ i + Len(old) - 1 <= Len(text)
    /\ SubSeq(text, i, i + Len(old) - 1) = old

\* the text with only its first occurrence of old replaced
ReplaceFirst(text, old, new) ==
    LET at == {i \in DOMAIN text : OccursAt(text, old, i)}
    IN  IF at = {} THEN text
        ELSE LET i == CHOOSE k \in at : \A j \in at : k <= j
             IN  SubSeq(text, 1, i - 1) \o new \o SubSeq(text, i + Len(old), Len(text))

\* str.replace(old, new) for a non-empty old: the non-overlapping occurrences, from the left
RECURSIVE Replace(_, _, _)
Replace(text, old, new) ==
    IF Len(text) < Len(old) THEN text
    ELSE IF OccursAt(text, old, 1)
         THEN new \o Replace(SubSeq(text, Len(old) + 1, Len(text)), old, new)
         ELSE <<Head(text)>> \o Replace(Tail(text), old, new)

\* f'{{{{{key}}}}}'
Marker(key) == <<"{", "{">> \o key \o <<"}", "}">>

\* the iteration replacing only the first occurrence (str.replace(old, new, 1))
RenderItemFirst(text, item) == ReplaceFirst(text, Marker(item[1]), item[2])

\* one iteration of the loop over context.items()
RenderItem(text, item) == Replace(text, Marker(item[1]), item[2])

\* the loop over context.items(), from item i on
RECURSIVE RenderFrom(_, _, _)
RenderFrom(text, ctx, i) ==
    IF i > Len(ctx) THEN text
    ELSE RenderFrom(RenderItem(text, ctx[i]), ctx, i + 1)

\* the text render_template writes to dst
RenderText(text, ctx) == RenderFrom(text, ctx, 1)

KeyTitle == <<"t","i","t","l","e">>
KeyClient == <<"c","l","i","e","n","t">>
KeyOwner == <<"o","w","n","e","r">>
KeyType == <<"t","y","p","e">>
KeyDueDate == <<"d","u","e","_","d","a","t","e">>
KeyOrganization == <<"o","r","g","a","n","i","z","a","t","i","o","n">>

(***************************************************************************)
(* Rendering on its own: the template and the context drawn in RenderInit  *)
(***************************************************************************)
MaxSegs == 3

\* the placeholder names the templates of the model use
RenderKeys == {KeyTitle, KeyOrganization}

\* the pieces templates are put together from: text, stray braces, markers
RenderSegs == {<<"x">>, <<"{">>, <<"}">>} \cup {Marker(k) : k \in RenderKeys}

RECURSIVE Flatten(_)
Flatten(ss) == IF ss = <<>> THEN <<>> ELSE Head(ss) \o Flatten(Tail(ss))

RenderTemplates == {Flatten(ss) : ss \in SeqsUpTo(RenderSegs, MaxSegs)}

RenderValues == {<<>>, <<"A">>, Marker(KeyOrganization)}

\* context.items(): the keys are distinct, in insertion order
RenderContexts ==
    {c \in SeqsUpTo(RenderKeys \X RenderValues, 2) :
        \A i, j \in DOMAIN c : i # j => c[i][1] # c[j][1]}

RenderInit ==
    /\ rTemplate \in RenderTemplates
    /\ rText = rTemplate
    /\ rCtx \in RenderContexts
    /\ rIdx = 0
    /\ rPc = "loop"
    /\ slugArgs = <<>> /\ slugPc = "off" /\ slugFolder = <<>>
    /\ vPath = SomePath /\ vFile = <<>> /\ vData = <<>> /\ vIdx = 0
    /\ vErrors = <<>> /\ vPc = "idle" /\ vExit = -1
    /\ dirs = {} /\ files = <<>>
    /\ pc = [p \in Procs |-> 1]
    /\ args = [p \in Procs |-> <<>>]
    /\ written = [p \in Procs |-> <<>>]
    /\ made = [p \in Procs |-> FALSE]
    /\ out = [p \in Procs |-> <<>>]
    /\ exit = [p \in Procs |-> 0]
    /\ seen = [p \in Procs |-> "nothing"]

\* text = text.replace(f'{{{{{key}}}}}', val) for the next item
RenderStep ==
    /\ rPc = "loop"
    /\ rIdx < Len(rCtx)
    /\ rText' = RenderItem(rText, rCtx[rIdx + 1])
    /\ rIdx' = rIdx + 1
    /\ UNCHANGED <<rTemplate, rCtx, rPc, notRender>>

\* dst.write_text(text)
RenderWrite ==
    /\ rPc = "loop"
    /\ rIdx = Len(rCtx)
    /\ rPc' = "written"
    /\ UNCHANGED <<rText, rTemplate, rCtx, rIdx, notRender>>

RenderNext == RenderStep \/ RenderWrite

(***************************************************************************)
(* tools/validate_meta.py                                                  *)
(***************************************************************************)
\* SCHEMA.items(): key and required Python type, in order
SCHEMA == <<
    <<"title", "str">>,
    <<"client", "str">>,
    <<"owner", "str">>,
    <<"type", "str">>,
    <<"channels", "list">>,
    <<"status", "str">>,
    <<"due_date", "str">>,
    <<"rights", "list">>,
    <<"approvals", "list">>,
    <<"deliverables", "list">>,
    <<"tags", "list">>,
    <<"repo_links", "list">> >>

\* json.dumps: the JSON type a Python value is written as
JsonOfPython(ty) ==
    CASE ty = "str" -> "string"
      [] ty \in {"list", "tuple"} -> "array"
      [] ty \in {"int", "float"} -> "number"
      [] ty = "dict" -> "object"
      [] ty = "bool" -> "boolean"
      [] ty = "NoneType" -> "null"

\* json.loads: the Python type a JSON value is read as
PythonOfJson(ty) ==
    CASE ty = "string" -> "str"
      [] ty = "array" -> "list"
      [] ty = "number" -> "int"
      [] ty = "object" -> "dict"
      [] ty = "boolean" -> "bool"
      [] ty = "null" -> "NoneType"

\* json.dumps / json.dump of a dict, as the JSON type of each key
JsonDumps(record) == [k \in DOMAIN record |-> JsonOfPython(record[k])]

\* json.loads of a JSON object, as the Python type of each key
JsonLoads(doc) == [k \in DOMAIN doc |-> PythonOfJson(doc[k])]

\* isinstance(value, typ) for typ in (str, list)
IsInstance(ty, typ) == ty = typ

\* the loop body without its elif branch
CheckItemNoType(data, item, errors) ==
    IF item[1] \notin DOMAIN data
    THEN Append(errors, [kind |-> "missing key", key |-> item[1]])
    ELSE errors

\* the body of the loop over SCHEMA.items() for one item
CheckItem(data, item, errors) ==
    IF item[1] \notin DOMAIN data
    THEN Append(errors, [kind |-> "missing key", key |-> item[1]])
    ELSE IF ~IsInstance(data[item[1]], item[2])
         THEN Append(errors, [kind |-> "should be", key |-> item[1], typ |-> item[2]])
         ELSE errors

\* the exit status after the loop
ExitStatus(errors) == IF errors # <<>> THEN 1 ELSE 0

\* data = json.loads(args.file.read_text()); errors = []
ValLoad ==
    /\ vPc = "load"
    /\ vData' = JsonLoads(vFile)
    /\ vErrors' = <<>>
    /\ vIdx' = 0
    /\ vPc' = "loop"
    /\ UNCHANGED <<vPath, vFile, vExit, notVal>>

\* for key, typ in SCHEMA.items(): ...
ValCheck ==
    /\ vPc = "loop"
    /\ vIdx < Len(SCHEMA)
    /\ vErrors' = CheckItem(vData, SCHEMA[vIdx + 1], vErrors)
    /\ vIdx' = vIdx + 1
    /\ UNCHANGED <<vPath, vData, vFile, vPc, vExit, notVal>>

\* if errors: ... sys.exit(1); print('Metadata OK')
ValReport ==
    /\ vPc = "loop"
    /\ vIdx = Len(SCHEMA)
    /\ vExit' = ExitStatus(vErrors)
    /\ vPc' = "exit"
    /\ UNCHANGED <<vPath, vData, vFile, vIdx, vErrors, notVal>>

ValNext == ValLoad \/ ValCheck \/ ValReport

(***************************************************************************)
(* Validation on its own: the file drawn in ValInit                        *)
(***************************************************************************)
MaxDefects == 2

SchemaKeys == {SCHEMA[i][1] : i \in DOMAIN SCHEMA}
SchemaIndex(k) == CHOOSE i \in DOMAIN SCHEMA : SCHEMA[i][1] = k
SchemaType(k) == SCHEMA[SchemaIndex(k)][2]

\* keys no schema names
ExtraKeys == {"schema_version", "year"}

\* what a key of the file can be: absent, or a value of one of these JSON types
Outcomes == <<"absent", "string", "array", "number", "null">>

\* the outcomes that are a defect of schema key k
Defects(k) == SelectSeq(Outcomes, LAMBDA x : x # JsonOfPython(SchemaType(k)))

\* the JSON object in which the keys of defect have the defects opt picks (the
\* n-th key of defect in schema order gets the outcome Defects(k)[opt[n]]), the
\* other schema keys the required type, and the keys of extra are strings
ValFile(defect, opt, extra) ==
    LET Rank(k) == Cardinality({d \in defect : SchemaIndex(d) <= SchemaIndex(k)})
        How(k) == Defects(k)[opt[Rank(k)]]
    IN  FunOf({<<k, IF k \in defect THEN How(k)
                    ELSE IF k \in SchemaKeys THEN JsonOfPython(SchemaType(k))
                    ELSE "string">> :
               k \in (SchemaKeys \ {d \in defect : How(d) = "absent"}) \cup extra})

\* JSON objects in which at most MaxDefects schema keys are absent or of another
\* type, with any of the extra keys
ValFiles ==
    {ValFile(defect, opt, extra) :
        defect \in SubsetsUpTo(SchemaKeys, MaxDefects),
        opt \in [1..MaxDefects -> 1..(Len(Outcomes) - 1)],
        extra \in SUBSET ExtraKeys}

ValInit ==
    /\ vFile \in ValFiles
    /\ vPath = SomePath
    /\ vData = <<>>
    /\ vIdx = 0
    /\ vErrors = <<>>
    /\ vPc = "load"
    /\ vExit = -1
    /\ slugArgs = <<>> /\ slugPc = "off" /\ slugFolder = <<>>
    /\ rText = <<>> /\ rTemplate = <<>> /\ rCtx = <<>> /\ rIdx = 0 /\ rPc = "off"
    /\ dirs = {} /\ files = <<>>
    /\ pc = [p \in Procs |-> 1]
    /\ args = [p \in Procs |-> <<>>]
    /\ written = [p \in Procs |-> <<>>]
    /\ made = [p \in Procs |-> FALSE]
    /\ out = [p \in Procs |-> <<>>]
    /\ exit = [p \in Procs |-> 0]
    /\ seen = [p \in Procs |-> "nothing"]

(***************************************************************************)
(* The file system below the projects directory.  A path names the tool    *)
(* whose projects directory it is in (projects/ for scripts/new_project.py,*)
(* projects/<year>/ for tools/new_project.py), the project folder and the  *)
(* path below the project root (<<>> is the project root itself).          *)
(***************************************************************************)
Parent(path) == [path EXCEPT !.rel = SubSeq(path.rel, 1, Len(path.rel) - 1)]

Ancestors(path) ==
    {[path EXCEPT !.rel = SubSeq(path.rel, 1, n)] : n \in 0..(Len(path.rel) - 1)}

\* Path.mkdir(parents=True, exist_ok=False): an existing target raises FileExistsError
MkdirNoExistOk(path, ds, fs) ==
    IF path \in ds \/ path \in fs \/ Ancestors(path) \cap fs # {}
    THEN [ok |-> FALSE, dirs |-> ds]
    ELSE [ok |-> TRUE, dirs |-> ds \cup {path} \cup Ancestors(path)]

\* Path.mkdir(parents=True, exist_ok=True) with ds the directories and fs the files
\* that exist: an existing directory is left alone, a file in the way raises
Mkdir(path, ds, fs) ==
    IF path \in ds THEN [ok |-> TRUE, dirs |-> ds]
    ELSE IF path \in fs \/ Ancestors(path) \cap fs # {}
         THEN [ok |-> FALSE, dirs |-> ds]
         ELSE [ok |-> TRUE, dirs |-> ds \cup {path} \cup Ancestors(path)]

\* Path.write_text / open(path, 'w'): the parent must be a directory and the
\* path must not be one
CanWrite(path, ds) == path.rel # <<>> /\ Parent(path) \in ds /\ path \notin ds

\* the files after path was written with content c
Put(fl, path, c) ==
    [q \in DOMAIN fl \cup {path} |-> IF q = path THEN c ELSE fl[q]]

(***************************************************************************)
(* The two scaffolders as the sequence of their statements                 *)
(***************************************************************************)
Social == <<"s","o","c","i","a","l">>
Motion == <<"m","o","t","i","o","n">>
PrintType == <<"p","r","i","n","t">>

\* tools/new_project.py SUBDIRS
SUBDIRS == <<
    <<"01_brief">>,
    <<"02_research">>,
    <<"03_design", "print">>,
    <<"03_design", "social">>,
    <<"03_design", "large_format">>,
    <<"03_design", "vehicle_wrap">>,
    <<"03_design", "motion">>,
    <<"03_design", "ivr">>,
    <<"03_design", "web">>,
    <<"03_design", "app">>,
    <<"04_assets", "raw_photo">>,
    <<"04_assets", "raw_video">>,
    <<"04_assets", "audio">>,
    <<"04_assets", "gfx">>,
    <<"04_assets", "fonts">>,
    <<"05_edit", "video_projects">>,
    <<"05_edit", "motion_projects">>,
    <<"06_exports", "print_ready">>,
    <<"06_exports", "social_ready">>,
    <<"06_exports", "video_masters">>,
    <<"06_exports", "thumbnails">>,
    <<"06_exports", "deliverables">>,
    <<"07_docs", "approvals">>,
    <<"07_docs", "rights">>,
    <<"08_archive">> >>

\* scripts/new_project.py: the directories of the "structure" block
ScriptsDirs == << <<"03_Assets">>, <<"06_Exports">> >>

St(op, rel, stage, src) == [op |-> op, rel |-> rel, stage |-> stage, src |-> src]

\* scripts/new_project.py main(), from the exists check on
ScriptsProgram(a) == <<
    St("exists_check", <<>>, "check", "none"),
    St("mkdir", ScriptsDirs[1], "layout", "none"),
    St("mkdir", ScriptsDirs[2], "layout", "none"),
    St("write", <<"02_Metadata.json">>, "metadata", "metadata"),
    St("write", <<"metadata.json">>, "metadata", "metadata"),
    St("write", <<"01_Narrative.md">>, "documents", "narrative"),
    St("write", <<"brief.md">>, "documents", "narrative"),
    St("print", <<>>, "report", "none"),
    St("sync", <<>>, "sync", "none") >>

\* tools/new_project.py main(), from the loop over SUBDIRS on
ToolsProgram(a) ==
    [i \in DOMAIN SUBDIRS |-> St("mkdir", SUBDIRS[i], "layout", "none")]
    \o << St("write_text", <<"04_assets", "fonts", "README.md">>, "documents", "fonts"),
          St("render", <<"README.md">>, "documents", "README.Project.md"),
          St("render", <<"01_brief", "Brief.md">>, "documents", "Brief.Project.md"),
          St("render", <<"07_docs", "Checklist.Release.md">>, "documents", "Checklist.Release.md"),
          St("render", <<"07_docs", "QA.Checks.md">>, "documents", "QA.Checks.md"),
          St("copy", <<"07_docs", "rights", "Credits.Rights.md">>, "documents", "Credits.Rights.md"),
          St("write_text", <<"07_docs", "changelog.md">>, "documents", "changelog") >>
    \o (IF a.type \in {Social, Motion}
        THEN << St("copy", <<"03_design", "social", "SocialPlan.csv">>, "documents", "SocialPlan.csv") >>
        ELSE << >>)
    \o << St("json_dump", <<"Meta.Project.yaml">>, "metadata", "meta"),
          St("print", <<>>, "report", "none") >>

\* the command lines of the model
ScriptsTitles == {<<"a">>, <<"A">>}
ToolsTitles == {<<"a">>, <<"A">>}

ArgSets ==
    [tool : {"scripts"}, title : ScriptsTitles, organization : {<<>>}, year : {<<>>},
     client : {<<>>}, type : {PrintType}, owner : {<<>>}, due : {<<>>}]
    \cup
    [tool : {"tools"}, title : ToolsTitles, organization : {<<>>}, year : {<<>>},
     client : {<<"c">>}, type : {PrintType, Social}, owner : {<<"o">>},
     due : {<<"2","0","2","7">>}]

\* main() of the tool of command line a, and the project folder name it builds
\* (tabulated over the command lines of the model)
ProgramOf ==
    FunOf({<<a, IF a.tool = "scripts" THEN ScriptsProgram(a) ELSE ToolsProgram(a)>> :
            a \in ArgSets})

FolderOf ==
    FunOf({<<a, IF a.tool = "scripts" THEN ScriptsFolder(a) ELSE ToolsFolder(a)>> :
            a \in ArgSets})

Program(a) == ProgramOf[a]

Folder(a) == FolderOf[a]

\* proj / rel, project_dir / rel
ProjectPath(a, rel) == [tool |-> a.tool, id |-> Folder(a), rel |-> rel]

(***************************************************************************)
(* What the scaffolders write                                              *)
(***************************************************************************)
\* scripts/new_project.py: the metadata dict, as the Python type of each key
ScriptsMetadata ==
    [k \in {"schema_version", "title", "organization", "work_type", "year", "role",
            "seniority", "cover_image", "created_at", "updated_at"} |-> "str"]
    @@ [k \in {"categories", "skills", "tools", "tags", "highlights", "assets"} |-> "list"]
    @@ [k \in {"links", "privacy", "pcsi", "case"} |-> "dict"]

\* tools/new_project.py: the meta dict, as the Python type of each key
ToolsMeta ==
    [k \in {"title", "client", "owner", "type", "due_date", "status"} |-> "str"]
    @@ [k \in {"channels", "rights", "approvals", "deliverables", "tags", "repo_links"} |-> "list"]

\* content of a file that is no JSON document
NoDoc == [k \in {} |-> "null"]

\* tools/new_project.py: ctx.items()
ToolsContext(a) == <<
    <<KeyTitle, a.title>>,
    <<KeyClient, a.client>>,
    <<KeyOwner, a.owner>>,
    <<KeyType, a.type>>,
    <<KeyDueDate, a.due>> >>

\* the text of a file of the templates directory (not part of the repository
\* sources): a heading with the title and an organization line
TemplateText(name) ==
    <<"#", " ">> \o Marker(KeyTitle) \o <<"\n">> \o Marker(KeyOrganization)

\* scripts/new_project.py: "\n".join(narrative) + "\n", the parts that depend on the input
Narrative(a) ==
    <<"#", " ">> \o a.title
    \o (IF a.organization # <<>> THEN <<"\n">> \o a.organization ELSE <<>>)

\* the content a statement writes
Content(a, st) ==
    CASE st.src = "metadata" -> [doc |-> JsonDumps(ScriptsMetadata), text |-> a.title]
      [] st.src = "narrative" -> [doc |-> NoDoc, text |-> Narrative(a)]
      [] st.src = "meta" -> [doc |-> JsonDumps(ToolsMeta), text |-> a.title]
      [] st.src = "fonts" -> [doc |-> NoDoc, text |-> <<"f">>]
      [] st.src = "changelog" -> [doc |-> NoDoc, text |-> <<"#">>]
      [] st.op = "render" ->
            [doc |-> NoDoc, text |-> RenderText(TemplateText(st.src), ToolsContext(a))]
      [] st.op = "copy" -> [doc |-> NoDoc, text |-> TemplateText(st.src)]

(***************************************************************************)
(* The statements as actions of invocation p                               *)
(***************************************************************************)
Has(log, msg) == \E i \in DOMAIN log : log[i] = msg

Running(p) == exit[p] = -1 /\ pc[p] <= Len(Program(args[p]))
Cur(p) == Program(args[p])[pc[p]]
Root(p) == ProjectPath(args[p], <<>>)

\* the status after the statement at pc: 0 once main() returns
After(p) == IF pc[p] = Len(Program(args[p])) THEN 0 ELSE -1

\* what was at the project root when p ran its first statement
Seen(p) ==
    IF pc[p] # 1 THEN seen[p]
    ELSE IF Root(p) \notin dirs THEN "nothing"
    ELSE IF \E q \in Procs \ {p} : Root(q) = Root(p) /\ Has(out[q], "Created")
         THEN "project"
         ELSE "root"

\* the statements that touch files and may raise OSError
IOOps == {"mkdir", "write", "write_text", "render", "copy", "json_dump"}

\* if proj.exists(): raise SystemExit(f"Folder already exists: {proj}")
ExistsCheck(p) ==
    /\ Running(p)
    /\ Cur(p).op = "exists_check"
    /\ seen' = [seen EXCEPT ![p] = Seen(p)]
    /\ IF Root(p) \in dirs \/ Root(p) \in DOMAIN files
       THEN /\ out' = [out EXCEPT ![p] = Append(@, "Folder already exists")]
            /\ exit' = [exit EXCEPT ![p] = 1]
            /\ pc' = pc
       ELSE /\ pc' = [pc EXCEPT ![p] = @ + 1]
            /\ UNCHANGED <<out, exit>>
    /\ UNCHANGED <<dirs, files, args, written, made, notProc>>

\* ensure(p) / (project_dir / sub).mkdir(parents=True, exist_ok=True)
MakeDir(p) ==
    /\ Running(p)
    /\ Cur(p).op = "mkdir"
    /\ LET path == ProjectPath(args[p], Cur(p).rel)
           r == Mkdir(path, dirs, DOMAIN files)
       IN  /\ seen' = [seen EXCEPT ![p] = Seen(p)]
           /\ IF r.ok
              THEN /\ dirs' = r.dirs
                   /\ made' = [made EXCEPT ![p] = @ \/ r.dirs # dirs]
                   /\ pc' = [pc EXCEPT ![p] = @ + 1]
                   /\ exit' = [exit EXCEPT ![p] = After(p)]
                   /\ UNCHANGED out
              ELSE /\ exit' = [exit EXCEPT ![p] = 1]
                   /\ out' = [out EXCEPT ![p] = Append(@, "Traceback")]
                   /\ UNCHANGED <<dirs, made, pc>>
    /\ UNCHANGED <<files, written, args, notProc>>

\* write(p, text): p.parent.mkdir(parents=True, exist_ok=True); p.write_text(text)
Write(p) ==
    /\ Running(p)
    /\ Cur(p).op = "write"
    /\ LET path == ProjectPath(args[p], Cur(p).rel)
           r == Mkdir(Parent(path), dirs, DOMAIN files)
       IN  IF r.ok /\ CanWrite(path, r.dirs)
           THEN /\ dirs' = r.dirs
                /\ made' = [made EXCEPT ![p] = @ \/ r.dirs # dirs]
                /\ files' = Put(files, path, Content(args[p], Cur(p)))
                /\ written' = [written EXCEPT ![p] = Append(@, path)]
                /\ pc' = [pc EXCEPT ![p] = @ + 1]
                /\ exit' = [exit EXCEPT ![p] = After(p)]
                /\ UNCHANGED out
           ELSE /\ dirs' = r.dirs
                /\ made' = [made EXCEPT ![p] = @ \/ r.dirs # dirs]
                /\ exit' = [exit EXCEPT ![p] = 1]
                /\ out' = [out EXCEPT ![p] = Append(@, "Traceback")]
                /\ UNCHANGED <<files, written, pc>>
    /\ UNCHANGED <<args, seen, notProc>>

\* dst.write_text(...), render_template(src, dst, ctx), shutil.copy(src, dst),
\* json.dump(meta, open(dst, 'w'))
WriteText(p) ==
    /\ Running(p)
    /\ Cur(p).op \in {"write_text", "render", "copy", "json_dump"}
    /\ LET path == ProjectPath(args[p], Cur(p).rel)
       IN  IF CanWrite(path, dirs)
           THEN /\ files' = Put(files, path, Content(args[p], Cur(p)))
                /\ written' = [written EXCEPT ![p] = Append(@, path)]
                /\ pc' = [pc EXCEPT ![p] = @ + 1]
                /\ exit' = [exit EXCEPT ![p] = After(p)]
                /\ UNCHANGED out
           ELSE /\ exit' = [exit EXCEPT ![p] = 1]
                /\ out' = [out EXCEPT ![p] = Append(@, "Traceback")]
                /\ UNCHANGED <<files, written, pc>>
    /\ UNCHANGED <<dirs, made, args, seen, notProc>>

\* print(f"Created {proj}") / print(f'Created project at {project_dir}')
PrintCreated(p) ==
    /\ Running(p)
    /\ Cur(p).op = "print"
    /\ out' = [out EXCEPT ![p] = Append(@, "Created")]
    /\ pc' = [pc EXCEPT ![p] = @ + 1]
    /\ exit' = [exit EXCEPT ![p] = After(p)]
    /\ UNCHANGED <<dirs, files, args, written, made, seen, notProc>>

\* what subprocess.run(["npm", ...], cwd=ROOT / "server", check=True) can end in:
\* success, npm or the directory missing, a non-zero exit, another OSError
\* (npm not executable, server not a directory)
SyncResults == {"ok", "FileNotFoundError", "CalledProcessError", "PermissionError",
                "NotADirectoryError"}

\* except (FileNotFoundError, subprocess.CalledProcessError)
SyncCaught(r) == r \in {"FileNotFoundError", "CalledProcessError"}

\* the try block around subprocess.run
Sync(p) ==
    /\ Running(p)
    /\ Cur(p).op = "sync"
    /\ \E r \in SyncResults :
          /\ out' = [out EXCEPT ![p] =
                        Append(@, IF r = "ok" THEN "Project registered"
                                  ELSE IF SyncCaught(r) THEN "Unable to register"
                                  ELSE "Traceback")]
          /\ exit' = [exit EXCEPT ![p] = IF r = "ok" \/ SyncCaught(r) THEN 0 ELSE 1]
    /\ pc' = [pc EXCEPT ![p] = @ + 1]
    /\ UNCHANGED <<dirs, files, args, written, made, seen, notProc>>

\* the exception caught and only reported: main() goes on with the next statement
RaiseReported(p) ==
    /\ pc' = [pc EXCEPT ![p] = @ + 1]
    /\ exit' = [exit EXCEPT ![p] = After(p)]
    /\ out' = [out EXCEPT ![p] = Append(@, "Traceback")]

\* a statement that touches files raises OSError (permissions, disk, a template
\* that cannot be read): nothing catches it, the interpreter exits with status 1
Raise(p) ==
    /\ pc' = pc
    /\ exit' = [exit EXCEPT ![p] = 1]
    /\ out' = [out EXCEPT ![p] = Append(@, "Traceback")]

IOFail(p) ==
    /\ Running(p)
    /\ Cur(p).op \in IOOps
    /\ Raise(p)
    /\ seen' = [seen EXCEPT ![p] = Seen(p)]
    /\ UNCHANGED <<dirs, files, args, written, made, notProc>>

\* every invocation has ended, none of them by an I/O error
Quiet ==
    \A p \in Procs :
        exit[p] # -1 /\ (pc[p] <= Len(Program(args[p])) => Cur(p).op \notin IOOps)

\* the paths written by an invocation that reported success
Created(p) == \E i \in DOMAIN out[p] : out[p][i] = "Created"
CreatedPaths == UNION {Range(written[p]) : p \in {q \in Procs : Created(q)}}

\* tools/validate_meta.py is run on a metadata file of a project
ValStart ==
    /\ vPc = "idle"
    /\ Quiet
    /\ \E path \in DOMAIN files \cap CreatedPaths :
          /\ files[path].doc # NoDoc
          /\ vPath' = path
          /\ vFile' = files[path].doc
    /\ vPc' = "load"
    /\ UNCHANGED <<vData, vIdx, vErrors, vExit, slugVars, renderVars, fsVars, procVars>>

(***************************************************************************)
(* Specifications                                                          *)
(***************************************************************************)
\* two invocations on an empty projects directory
Init ==
    /\ slugArgs = <<>> /\ slugPc = "off" /\ slugFolder = <<>>
    /\ rText = <<>> /\ rTemplate = <<>> /\ rCtx = <<>> /\ rIdx = 0 /\ rPc = "off"
    /\ vPath = SomePath /\ vFile = <<>> /\ vData = <<>> /\ vIdx = 0
    /\ vErrors = <<>> /\ vPc = "idle" /\ vExit = -1
    /\ dirs = {}
    /\ files = <<>>
    /\ pc = [p \in Procs |-> 1]
    /\ args \in [Procs -> ArgSets]
    /\ written = [p \in Procs |-> <<>>]
    /\ made = [p \in Procs |-> FALSE]
    /\ out = [p \in Procs |-> <<>>]
    /\ exit = [p \in Procs |-> -1]
    /\ seen = [p \in Procs |-> "nothing"]

(***************************************************************************)
(* Layout creation on its own: one invocation at the start of its          *)
(* "structure" statements, over a project root in which some of the        *)
(* layout directories already exist                                        *)
(***************************************************************************)
MaxPre == 2

\* the directories the layout statements name
LayoutRels(a) == IF a.tool = "scripts" THEN Range(ScriptsDirs) ELSE Range(SUBDIRS)

\* a directory tree: the paths and the directories above them
Tree(paths) == paths \cup UNION {Ancestors(q) : q \in paths}

LayoutSeeds(a) ==
    {Tree(S) : S \in SubsetsUpTo({ProjectPath(a, rel) : rel \in LayoutRels(a) \cup {<<>>}},
                                 MaxPre)}

\* the index of the first and of the last layout statement
FirstLayout(a) == IF a.tool = "scripts" THEN 2 ELSE 1
LastLayout(a) == IF a.tool = "scripts" THEN 3 ELSE Len(SUBDIRS)

LayoutInit ==
    /\ args \in {[p \in Procs |-> a] : a \in ArgSets}
    /\ dirs \in LayoutSeeds(args["p1"])
    /\ files = <<>>
    /\ pc \in {[p \in Procs |-> IF p = "p1" THEN k ELSE 1] : k \in {1, FirstLayout(args["p1"])}}
    /\ exit = [p \in Procs |-> IF p = "p1" THEN -1 ELSE 0]
    /\ written = [p \in Procs |-> <<>>]
    /\ made = [p \in Procs |-> FALSE]
    /\ out = [p \in Procs |-> <<>>]
    /\ seen = [p \in Procs |-> "nothing"]
    /\ slugArgs = <<>> /\ slugPc = "off" /\ slugFolder = <<>>
    /\ rText = <<>> /\ rTemplate = <<>> /\ rCtx = <<>> /\ rIdx = 0 /\ rPc = "off"
    /\ vPath = SomePath /\ vFile = <<>> /\ vData = <<>> /\ vIdx = 0
    /\ vErrors = <<>> /\ vPc = "idle" /\ vExit = -1

LayoutNext == ExistsCheck("p1") \/ MakeDir("p1")

(***************************************************************************)
(* Properties                                                              *)
(***************************************************************************)
\* the statement of a's program that writes the file rel
WriterOf(a, rel) ==
    LET prog == Program(a)
    IN  prog[CHOOSE i \in DOMAIN prog : prog[i].rel = rel /\ prog[i].op \notin {"mkdir", "exists_check", "print", "sync"}]

IsMetadata(p, path) == WriterOf(args[p], path.rel).stage = "metadata"
IsDocument(p, path) == WriterOf(args[p], path.rel).stage = "documents"

\* every file the program of a is to write
ConfiguredFiles(a) ==
    {ProjectPath(a, Program(a)[i].rel) :
        i \in {j \in DOMAIN Program(a) : Program(a)[j].stage \in {"metadata", "documents"}}}

Failed(p) == exit[p] = 1 /\ pc[p] <= Len(Program(args[p])) /\ Cur(p).op \in IOOps

\* C1: a create call that finds a project at its identifier (the root in place,
\* reported as created by an earlier call) fails with AlreadyExists and changes
\* nothing: it creates no directory, writes no file, never reports success.
C1_ExistingRootRefused ==
    \A p \in Procs :
        seen[p] = "project" =>
            /\ written[p] = <<>>
            /\ ~made[p]
            /\ ~Has(out[p], "Created")
            /\ exit[p] # 0

\* C2: the metadata file written by a create that reported success passes
\* the standalone validator: no violation, exit status 0.
C2_CreatedMetadataValid ==
    vPc = "exit" => vErrors = <<>> /\ vExit = 0

\* C3: in every run the layout is complete before the metadata file is
\* written, and the metadata file is written before any document.
C3_MetadataBeforeDocuments ==
    \A p \in Procs :
        \A i \in DOMAIN written[p] :
            /\ pc[p] > LastLayout(args[p])
            /\ IsDocument(p, written[p][i]) =>
                  \E j \in 1..(i - 1) : IsMetadata(p, written[p][j])

\* C4: of two invocations that resolve to the same project root, at most one
\* gets past the root check and writes files; no file is written by both.
C4_ExclusiveRoot ==
    \A p, q \in Procs :
        p # q /\ Root(p) = Root(q) =>
            /\ ~(written[p] # <<>> /\ written[q] # <<>>)
            /\ Range(written[p]) \cap Range(written[q]) = {}

\* C5 as stated: once rendered, the text holds no marker of a placeholder
\* whose key is not in the context.
UnresolvedKeys == RenderKeys \ {rCtx[i][1] : i \in DOMAIN rCtx}

Count(text, old) == Cardinality({i \in DOMAIN text : OccursAt(text, old, i)})

C5_NoUnresolvedMarker ==
    rPc = "written" => \A k \in UnresolvedKeys : Count(rText, Marker(k)) = 0

\* the template with every marker of a context key replaced by its value, in one
\* pass from the left
RECURSIVE Substituted(_, _)
Substituted(text, ctx) ==
    IF text = <<>> THEN <<>>
    ELSE LET hit == {i \in DOMAIN ctx : OccursAt(text, Marker(ctx[i][1]), 1)}
         IN  IF hit = {} THEN <<Head(text)>> \o Substituted(Tail(text), ctx)
             ELSE LET i == CHOOSE j \in hit : TRUE
                  IN  ctx[i][2] \o Substituted(
                          SubSeq(text, Len(Marker(ctx[i][1])) + 1, Len(text)), ctx)

\* text whose braces all belong to markers of the known placeholders
RECURSIVE WellFormed(_)
WellFormed(text) ==
    IF text = <<>> THEN TRUE
    ELSE LET hit == {k \in RenderKeys : OccursAt(text, Marker(k), 1)}
         IN  IF hit # {}
             THEN WellFormed(SubSeq(text, Len(Marker(CHOOSE k \in hit : TRUE)) + 1, Len(text)))
             ELSE Head(text) \notin {"{", "}"} /\ WellFormed(Tail(text))

BraceFree(text) == \A i \in DOMAIN text : text[i] \notin {"{", "}"}

\* C5 amended: every marker of a placeholder whose key is not in the context
\* is still in the rendered text, as literal marker text; and for a template
\* whose braces all belong to markers, with values free of braces, the
\* rendered text is the template with each marker of a context key replaced by
\* that key's value.
C5_UnresolvedKeptVerbatim ==
    rPc = "written" =>
        /\ \A k \in UnresolvedKeys : Count(rText, Marker(k)) >= Count(rTemplate, Marker(k))
        /\ (WellFormed(rTemplate) /\ \A i \in DOMAIN rCtx : BraceFree(rCtx[i][2]))
              => rText = Substituted(rTemplate, rCtx)

\* C5 witness: the template of the example, title in the context and
\* organization not: the title is substituted, the organization marker stays
C5_Witness ==
    /\ rPc = "written"
    /\ rTemplate = Marker(KeyTitle) \o <<"x">> \o Marker(KeyOrganization)
    /\ rCtx = << <<KeyTitle, <<"A">> >> >>
    /\ rText = <<"A", "x">> \o Marker(KeyOrganization)

\* C6: once a run has reported success, it ends with status 0 whatever the
\* sync step does.
C6_SyncFailureKeepsSuccess ==
    \A p \in Procs : Has(out[p], "Created") /\ exit[p] # -1 => exit[p] = 0

\* C7: the folder name create builds is a valid single path segment.
C7_FolderIsPathSegment ==
    slugPc \in {"scripts", "tools"} => ValidSegment(slugFolder)

\* the files the statements before pc write, in order
RECURSIVE WritesOf(_, _, _)
WritesOf(a, prog, n) ==
    IF n = 0 THEN <<>>
    ELSE WritesOf(a, prog, n - 1)
         \o (IF prog[n].stage \in {"metadata", "documents"}
             THEN <<ProjectPath(a, prog[n].rel)>> ELSE <<>>)

\* (tabulated over the command lines of the model)
WritesBefore ==
    FunOf({<<a, FunOf({<<n, WritesOf(a, Program(a), n)>> : n \in 0..Len(Program(a))})>> :
            a \in ArgSets})

ConfiguredOf == FunOf({<<a, ConfiguredFiles(a)>> : a \in ArgSets})

\* C8: a run that raised an I/O error ends there with status 1: the failed
\* statement and the statements after it wrote nothing and printed nothing;
\* a run that failed while creating the layout has written no file; and a
\* run reports success only after it wrote the metadata file and every
\* configured document.
C8_FailureAborts ==
    \A p \in Procs :
        /\ written[p] = WritesBefore[args[p]][pc[p] - 1]
        /\ Has(out[p], "Traceback") =>
              /\ exit[p] = 1
              /\ out[p][Len(out[p])] = "Traceback"
        /\ (Failed(p) /\ Cur(p).stage = "layout") => written[p] = <<>>
        /\ Failed(p) => out[p] = <<"Traceback">>
        /\ Has(out[p], "Created") => ConfiguredOf[args[p]] \subseteq Range(written[p])

\* C8 witness: a run that failed in the documents stage, part of its files written
C8_Witness ==
    \E p \in Procs :
        /\ Failed(p) /\ Cur(p).stage = "documents"
        /\ Len(written[p]) >= 2
        /\ ConfiguredFiles(args[p]) \ Range(written[p]) # {}

\* the required keys that the file does not hold with the required type
BadKeys(doc) ==
    {k \in SchemaKeys : k \notin DOMAIN doc \/ doc[k] # JsonOfPython(SchemaType(k))}

\* C9: the validator's list holds exactly one violation for each required key
\* that is absent ("missing key") or of another type ("should be"), in schema
\* order, and nothing for other keys; the exit status is non-zero exactly when
\* the list is not empty; the file is left as it is.
C9_ListState ==
    vPc = "exit" =>
        /\ Len(vErrors) = Cardinality(BadKeys(vFile))
        /\ \A i \in DOMAIN vErrors :
              /\ vErrors[i].key \in BadKeys(vFile)
              /\ vErrors[i].kind = (IF vErrors[i].key \in DOMAIN vFile
                                    THEN "should be" ELSE "missing key")
        /\ \A i, j \in DOMAIN vErrors :
              i < j => SchemaIndex(vErrors[i].key) < SchemaIndex(vErrors[j].key)
        /\ (vExit # 0) <=> (vErrors # <<>>)
        /\ (vErrors = <<>>) <=> (BadKeys(vFile) = {})

C9_ExactViolations == []C9_ListState /\ [][vFile' = vFile /\ vPath' = vPath]_vars

\* C9 witness: a file with a key missing, a key of another type and a key the
\* schema does not name, reported as two violations
C9_Witness ==
    /\ vPc = "exit"
    /\ "title" \notin DOMAIN vFile
    /\ "tags" \in DOMAIN vFile /\ vFile["tags"] = "string"
    /\ "schema_version" \in DOMAIN vFile
    /\ Len(vErrors) = 2
    /\ vExit = 1

\* the directories of a freshly created layout
FreshLayout(a) ==
    UNION {{ProjectPath(a, SubSeq(rel, 1, n)) : n \in 0..Len(rel)} : rel \in LayoutRels(a)}

\* C10: whatever part of the layout exists, the layout statements raise no
\* error and leave exactly the directories of a fresh layout, creating no
\* file; the one failure is the root check of scripts/new_project.py, which
\* fails on an existing root.
C10_LayoutIdempotent ==
    /\ exit["p1"] = 1 => Cur("p1").op = "exists_check" /\ Root("p1") \in dirs
    /\ (Has(out["p1"], "Folder already exists") \/ Has(out["p1"], "Traceback"))
          => exit["p1"] = 1
    /\ pc["p1"] > LastLayout(args["p1"]) =>
          /\ dirs = FreshLayout(args["p1"])
          /\ files = <<>>
          /\ out["p1"] = <<>>

\* C10 witness: the layout completed over a root that was already there, some
\* of its directories missing
C10_Witness ==
    /\ pc["p1"] > LastLayout(args["p1"])
    /\ seen["p1"] = "root"
    /\ made["p1"]

Next ==
    \/ \E p \in Procs :
          \/ ExistsCheck(p)
          \/ MakeDir(p)
          \/ Write(p)
          \/ WriteText(p)
          \/ PrintCreated(p)
          \/ Sync(p)
          \/ IOFail(p)
    \/ ValStart
    \/ ValLoad
    \/ ValCheck
    \/ ValReport

Spec == Init /\ [][Next]_vars

SpecSlug == SlugInit /\ [][SlugNext]_vars

SpecRender == RenderInit /\ [][RenderNext]_vars

SpecValidate == ValInit /\ [][ValNext]_vars

SpecLayout == LayoutInit /\ [][LayoutNext]_vars

====
